---------------------------- MODULE Spec2Model ----------------------------
(***************************************************************************)
(* Model of the template compiler front-end of src/template_parser.rs:     *)
(* the AST builder (parse_...), the expression builder (build_...) and the *)
(* materialisation of the result (into_template).                          *)
(*                                                                         *)
(* Values of the program are represented as follows.                       *)
(*   pest Pair        record [rule, span, ...] (the concrete syntax tree)  *)
(*   pest Span        <<start, end>>, half-open, in columns of the text    *)
(*   Result<T, E>     [ok |-> TRUE, val |-> v] or [ok |-> FALSE, err |-> e]*)
(*   Option<T>        <<>> (None) or <<v>> (Some(v))                       *)
(*   i64              its decimal numeral: a sequence of digits, most      *)
(*                    significant first, without leading zero; below zero  *)
(*                    the numeral of the magnitude after a sign            *)
(*   closures         symbolic terms [fn |-> ..., ...] naming the          *)
(*                    computation the closure performs                     *)
(***************************************************************************)
EXTENDS Integers, Sequences, FiniteSets, TLC

VARIABLES
    pc,          \* position in parse_commit_template / tests::parse
    resolver,    \* which build_keyword callback the caller supplied
    template_text, \* the text handed to parse_template
    source,      \* the pest parse of the template text (program rule)
    ast,         \* result of parse_template
    built,       \* result of build_expression
    output,      \* result of Expression::into_template
    closure_input,  \* the closure of a short/shortest property and the
                    \* (id, len) it is called with when a template is rendered
    closure_output  \* what that closure returns

vars ==
    <<pc, resolver, template_text, source, ast, built, output,
      closure_input, closure_output>>

(***************************************************************************)
(* Bounds of the model.                                                    *)
(***************************************************************************)
\* longest argument list of a global function call in the inputs
MaxArgs == 4
\* longest argument list of a method call in the inputs
MaxMethodArgs == 2
\* longest method chain in the inputs
MaxChain == 3
\* most terms juxtaposed in one template of the inputs
MaxTerms == 3

(***************************************************************************)
(* Results and options.                                                    *)
(***************************************************************************)
Ok(v) == [ok |-> TRUE, val |-> v]

Err(e) == [ok |-> FALSE, err |-> e]

None == <<>>

Some(v) == <<v>>

NoValue == "-"

(***************************************************************************)
(* Errors: TemplateParseErrorKind together with the span handed to         *)
(* TemplateParseError::with_span.                                          *)
(***************************************************************************)
with_span(kind, span) == [kind |-> kind, span |-> span]

no_such_keyword(name, span) ==
    with_span([tag |-> "NoSuchKeyword", name |-> name], span)

\* no_such_function reporting the argument list in place of the name
no_such_function_at_args(function) ==
    with_span([tag |-> "NoSuchFunction", name |-> function.name],
              function.args_span)

no_such_function(function) ==
    with_span([tag |-> "NoSuchFunction", name |-> function.name],
              function.name_span)

no_such_method(type_name, function) ==
    with_span([tag |-> "NoSuchMethod", type_name |-> type_name,
               name |-> function.name],
              function.name_span)

invalid_argument_count_exact(count, span) ==
    with_span([tag |-> "InvalidArgumentCountExact", count |-> count], span)

invalid_argument_count_range(lo, hi, span) ==
    with_span([tag |-> "InvalidArgumentCountRange", start |-> lo, end |-> hi],
              span)

invalid_argument_count_range_from(lo, span) ==
    with_span([tag |-> "InvalidArgumentCountRangeFrom", start |-> lo], span)

invalid_argument_type(expected_type_name, span) ==
    with_span([tag |-> "InvalidArgumentType",
               expected |-> expected_type_name], span)

\* impl From<pest::error::Error<Rule>> for TemplateParseError
from_pest_error(err) ==
    [kind |-> [tag |-> "SyntaxError"], span |-> <<err.pos, err.pos>>]

(***************************************************************************)
(* The grammar (template.pest).  A template text is represented by its     *)
(* pest parse: a tree of pairs [rule, inner, str], to which SpanOf assigns *)
(* the spans pest reports.  Columns count tokens: every literal,           *)
(* identifier, parenthesis, comma and dot is one column wide, and the      *)
(* whitespace that separates two juxtaposed terms is one column.           *)
(***************************************************************************)
raw_literal_pair(s) == [rule |-> "raw_literal", str |-> s, inner |-> <<>>]

escape_pair(s) == [rule |-> "escape", str |-> s, inner |-> <<>>]

literal_pair(parts) == [rule |-> "literal", str |-> NoValue, inner |-> parts]

\* the text of an integer literal is kept as its sequence of digits
integer_literal_pair(digits) ==
    [rule |-> "integer_literal", digits |-> digits, inner |-> <<>>]

identifier_pair(name) == [rule |-> "identifier", str |-> name, inner |-> <<>>]

function_arguments_pair(templates) ==
    [rule |-> "function_arguments", str |-> NoValue, inner |-> templates]

\* an argument list written with the optional comma after its last argument;
\* the comma yields no pair of its own and lies inside the span of the list
function_arguments_trailing_pair(templates) ==
    [rule |-> "function_arguments", str |-> ",", inner |-> templates]

function_pair(name, templates) ==
    [rule |-> "function", str |-> NoValue,
     inner |-> <<identifier_pair(name), function_arguments_pair(templates)>>]

term_pair(primary, chain) ==
    [rule |-> "term", str |-> NoValue, inner |-> <<primary>> \o chain]

template_pair(terms) == [rule |-> "template", str |-> NoValue, inner |-> terms]

RECURSIVE Width(_)
RECURSIVE SumWidth(_, _)
\* columns taken by the elements of ps, each followed by `gap` columns
SumWidth(ps, gap) ==
    IF ps = <<>> THEN 0 ELSE Width(Head(ps)) + gap + SumWidth(Tail(ps), gap)

\* in a term, a template primary stands between parentheses
Parens(p) == IF p.rule = "template" THEN 1 ELSE 0

Width(p) ==
    CASE p.rule \in {"literal", "integer_literal", "identifier"} -> 1
      [] p.rule = "function_arguments" ->
            IF p.inner = <<>> THEN 0
            ELSE SumWidth(p.inner, 1) - 1 + (IF p.str = "," THEN 1 ELSE 0)
      [] p.rule = "function" -> 3 + Width(p.inner[2])
      [] p.rule = "template" -> SumWidth(p.inner, 1) - 1
      [] p.rule = "term" ->
            Width(Head(p.inner)) + 2 * Parens(Head(p.inner))
              + SumWidth(Tail(p.inner), 1)
      [] OTHER -> 0

RECURSIVE SpanOf(_, _)
RECURSIVE SpanSeq(_, _, _)
\* the elements of ps laid out from column s on, `gap` columns apart
SpanSeq(ps, s, gap) ==
    IF ps = <<>> THEN <<>>
    ELSE <<SpanOf(Head(ps), s)>>
           \o SpanSeq(Tail(ps), s + Width(Head(ps)) + gap, gap)

\* the pair p as pest reports it when its text starts at column s
SpanOf(p, s) ==
    LET sp == <<s, s + Width(p)>>
        in == CASE p.rule \in {"function_arguments", "template"} ->
                      SpanSeq(p.inner, s, 1)
                [] p.rule = "function" ->
                      <<SpanOf(p.inner[1], s), SpanOf(p.inner[2], s + 2)>>
                [] p.rule = "term" ->
                      LET first == Head(p.inner)
                          w == Width(first) + 2 * Parens(first)
                      IN  <<SpanOf(first, s + Parens(first))>>
                            \o SpanSeq(Tail(p.inner), s + w + 1, 1)
                [] OTHER -> p.inner
    IN  IF p.rule = "integer_literal"
        THEN [rule |-> p.rule, digits |-> p.digits, inner |-> in, span |-> sp]
        ELSE [rule |-> p.rule, str |-> p.str, inner |-> in, span |-> sp]

RECURSIVE Unspan(_)
\* the pair p without the spans: the text it was parsed from
Unspan(p) ==
    LET in == [i \in 1..Len(p.inner) |-> Unspan(p.inner[i])]
    IN  IF p.rule = "integer_literal"
        THEN [rule |-> p.rule, digits |-> p.digits, inner |-> in]
        ELSE [rule |-> p.rule, str |-> p.str, inner |-> in]

EOI(s) == [rule |-> "EOI", str |-> NoValue, inner |-> <<>>, span |-> <<s, s>>]

\* TemplateParser::parse(Rule::program, text): the pairs of the program rule
Program(t) == <<SpanOf(t, 0), EOI(Width(t))>>

EmptyProgram == <<EOI(0)>>

(***************************************************************************)
(* Template texts and TemplateParser::parse.  A text is written as the     *)
(* tree of its tokens: the tree of pairs of its template, without spans,   *)
(* in which an argument list holds its arguments and its commas in the     *)
(* order they are written.  The empty text is the template of no terms.    *)
(***************************************************************************)
Comma == [rule |-> ",", str |-> ",", inner |-> <<>>]

EmptyText == template_pair(<<>>)

\* a, b, c written as a "," b "," c
WithCommas(ts) ==
    [i \in 1..(2 * Len(ts) - 1) |->
        IF i % 2 = 1 THEN ts[(i + 1) \div 2] ELSE Comma]

RECURSIVE Text(_)
\* the text of which p is the parse, spans aside
Text(p) ==
    LET in == [i \in 1..Len(p.inner) |-> Text(p.inner[i])]
    IN  CASE p.rule = "integer_literal" -> p
          [] p.rule = "function_arguments" ->
                [rule |-> p.rule, str |-> NoValue,
                 inner |-> WithCommas(in)
                             \o (IF p.str = "," THEN <<Comma>> ELSE <<>>)]
          [] OTHER -> [rule |-> p.rule, str |-> p.str, inner |-> in]

RECURSIVE Shape(_)
\* the pairs pest produces for a text that follows the grammar: commas
\* yield no pair
Shape(t) ==
    IF t.rule = "integer_literal" THEN t
    ELSE IF t.rule = "function_arguments"
    THEN LET templates == SelectSeq(t.inner, LAMBDA x : x.rule # ",")
             n == Len(t.inner)
         IN  [rule |-> t.rule,
              str |-> IF n > 0 /\ t.inner[n].rule = "," THEN "," ELSE NoValue,
              inner |-> [i \in 1..Len(templates) |-> Shape(templates[i])]]
    ELSE [rule |-> t.rule, str |-> t.str,
          inner |-> [i \in 1..Len(t.inner) |-> Shape(t.inner[i])]]

RECURSIVE syntax_error(_, _)
RECURSIVE sequence_error(_, _, _)
RECURSIVE arguments_error(_, _, _)
\* the first error among the elements of ts laid out from column s on
sequence_error(ts, s, gap) ==
    IF ts = <<>> THEN None
    ELSE LET e == syntax_error(Head(ts), s)
         IN  IF e # None THEN e
             ELSE sequence_error(Tail(ts), s + Width(Shape(Head(ts))) + gap,
                                 gap)

\* arg_list := template ("," template)* ","? applied to the tokens ts that
\* follow a token of rule prev ("(" at the start of the list)
arguments_error(ts, s, prev) ==
    IF ts = <<>> THEN None
    ELSE LET t == Head(ts)
         IN  IF t.rule = ","
             THEN IF prev = "template"
                  THEN arguments_error(Tail(ts), s + 1, ",")
                  ELSE Some(s)
             ELSE IF prev = "template" THEN Some(s)
             ELSE LET e == syntax_error(t, s)
                  IN  IF e # None THEN e
                      ELSE arguments_error(Tail(ts), s + Width(Shape(t)),
                                           "template")

\* the column of the first token at which the text t, starting at column s,
\* leaves the grammar; None when it follows the grammar
syntax_error(t, s) ==
    CASE t.rule = "integer_literal" ->
            \* integer_literal := "0" | nonzero_digit digit*
            IF Len(t.digits) > 1 /\ Head(t.digits) = 0 THEN Some(s) ELSE None
      [] t.rule = "template" ->
            \* template := term+
            IF t.inner = <<>> THEN Some(s) ELSE sequence_error(t.inner, s, 1)
      [] t.rule = "term" ->
            LET first == Head(t.inner)
                e == syntax_error(first, s + Parens(first))
            IN  IF e # None THEN e
                ELSE sequence_error(Tail(t.inner),
                                    s + Width(Shape(first))
                                      + 2 * Parens(first) + 1,
                                    1)
      [] t.rule = "function" -> arguments_error(t.inner[2].inner, s + 2, "(")
      [] OTHER -> None

\* pest::error::Error: the position at which parsing failed
pest_error(pos) == [pos |-> pos]

\* TemplateParser::parse(Rule::program, template_text)
TemplateParser_parse(input) ==
    IF input = EmptyText THEN Ok(EmptyProgram)
    ELSE LET e == syntax_error(input, 0)
         IN  IF e # None THEN Err(pest_error(e[1]))
             ELSE Ok(Program(Shape(input)))

(***************************************************************************)
(* Iterator helpers: try_collect returns the first error of a sequence of  *)
(* results, in order, or the sequence of all values.                       *)
(***************************************************************************)
RECURSIVE try_collect(_)
try_collect(results) ==
    IF results = <<>> THEN Ok(<<>>)
    ELSE IF ~Head(results).ok THEN Head(results)
    ELSE LET rest == try_collect(Tail(results))
         IN  IF rest.ok THEN Ok(<<Head(results).val>> \o rest.val) ELSE rest

(***************************************************************************)
(* i64 parsing (str::parse::<i64>) on a sequence of decimal digits.        *)
(***************************************************************************)
\* i64::MAX = 9223372036854775807
I64MaxDigits == <<9,2,2,3,3,7,2,0,3,6,8,5,4,7,7,5,8,0,7>>

RECURSIVE StripZeros(_)
StripZeros(ds) ==
    IF Len(ds) > 1 /\ Head(ds) = 0 THEN StripZeros(Tail(ds)) ELSE ds

RECURSIVE DigitsLess(_, _)
\* a < b for two numerals of the same length
DigitsLess(a, b) ==
    IF a = <<>> THEN FALSE
    ELSE IF Head(a) # Head(b) THEN Head(a) < Head(b)
    ELSE DigitsLess(Tail(a), Tail(b))

\* a <= b for two numerals without leading zeros
NumeralLeq(a, b) ==
    \/ Len(a) < Len(b)
    \/ Len(a) = Len(b) /\ (a = b \/ DigitsLess(a, b))

\* parse_i64 with the bound of the magnitude of i64::MIN, 2^63
parse_i64_bound_of_min(ds) ==
    LET n == StripZeros(ds)
    IN  IF NumeralLeq(n, <<9,2,2,3,3,7,2,0,3,6,8,5,4,7,7,5,8,0,8>>) THEN Ok(n)
        ELSE Err([tag |-> "ParseIntError", cause |-> "PosOverflow"])

parse_i64(ds) ==
    LET n == StripZeros(ds)
    IN  IF NumeralLeq(n, I64MaxDigits) THEN Ok(n)
        ELSE Err([tag |-> "ParseIntError", cause |-> "PosOverflow"])

(***************************************************************************)
(* AST nodes and the AST builder.                                          *)
(***************************************************************************)
IdentifierNode(name, span) ==
    [kind |-> "Identifier", name |-> name, span |-> span]

IntegerNode(value, span) == [kind |-> "Integer", value |-> value, span |-> span]

StringNode(text, span) == [kind |-> "String", text |-> text, span |-> span]

ListNode(nodes, span) == [kind |-> "List", nodes |-> nodes, span |-> span]

FunctionCallExpr(function, span) ==
    [kind |-> "FunctionCall", function |-> function, span |-> span]

MethodCallExpr(object, function, span) ==
    [kind |-> "MethodCall", object |-> object, function |-> function,
     span |-> span]

FunctionCallNode(name, name_span, args, args_span) ==
    [name |-> name, name_span |-> name_span, args |-> args,
     args_span |-> args_span]

RECURSIVE parse_string_parts(_)
parse_string_parts(parts) ==
    IF parts = <<>> THEN ""
    ELSE LET part == Head(parts)
             piece == CASE part.rule = "raw_literal" -> part.str
                        [] part.rule = "escape" /\ part.str = "\\\"" -> "\""
                        [] part.rule = "escape" /\ part.str = "\\\\" -> "\\"
                        [] part.rule = "escape" /\ part.str = "\\n" -> "\n"
         IN  piece \o parse_string_parts(Tail(parts))

parse_string_literal(pair) == parse_string_parts(pair.inner)

RECURSIVE parse_function_call_node(_)
RECURSIVE parse_term_node(_)
RECURSIVE parse_template_node(_)
RECURSIVE fold_chain(_, _)

parse_function_call_node(pair) ==
    LET name == pair.inner[1]
        args_pair == pair.inner[2]
        args == try_collect([i \in 1..Len(args_pair.inner) |->
                                parse_template_node(args_pair.inner[i])])
    IN  IF ~args.ok THEN args
        ELSE Ok(FunctionCallNode(name.str, name.span, args.val,
                                 args_pair.span))

\* inner.try_fold(primary, |object, chain| ...) of parse_term_node
fold_chain(object, chain) ==
    IF chain = <<>> THEN Ok(object)
    ELSE LET function == parse_function_call_node(Head(chain))
         IN  IF ~function.ok THEN function
             ELSE fold_chain(MethodCallExpr(object, function.val,
                                            Head(chain).span),
                             Tail(chain))

parse_term_node(pair) ==
    LET expr == Head(pair.inner)
        span == expr.span
        primary ==
            CASE expr.rule = "literal" ->
                    Ok(StringNode(parse_string_literal(expr), span))
              [] expr.rule = "integer_literal" ->
                    LET value == parse_i64(expr.digits)
                    IN  IF ~value.ok THEN Err(with_span(value.err, span))
                        ELSE Ok(IntegerNode(value.val, span))
              [] expr.rule = "identifier" -> Ok(IdentifierNode(expr.str, span))
              [] expr.rule = "function" ->
                    LET function == parse_function_call_node(expr)
                    IN  IF ~function.ok THEN function
                        ELSE Ok(FunctionCallExpr(function.val, span))
              [] expr.rule = "template" -> parse_template_node(expr)
    IN  IF ~primary.ok THEN primary
        ELSE fold_chain(primary.val, Tail(pair.inner))

\* parse_template_node without the collapse of a single term
parse_template_node_always_list(pair) ==
    LET span == pair.span
        nodes == try_collect([i \in 1..Len(pair.inner) |->
                                 parse_term_node(pair.inner[i])])
    IN  IF ~nodes.ok THEN nodes
        ELSE Ok(ListNode(nodes.val, span))

parse_template_node(pair) ==
    LET span == pair.span
        nodes == try_collect([i \in 1..Len(pair.inner) |->
                                 parse_term_node(pair.inner[i])])
    IN  IF ~nodes.ok THEN nodes
        ELSE IF Len(nodes.val) = 1 THEN Ok(nodes.val[1])
        ELSE Ok(ListNode(nodes.val, span))

\* parse_template that takes the empty text for the empty string literal
parse_template_empty_is_string(parsed) ==
    IF ~parsed.ok THEN Err(from_pest_error(parsed.err))
    ELSE LET first_pair == Head(parsed.val)
         IN  IF first_pair.rule = "EOI"
             THEN Ok(StringNode("", first_pair.span))
             ELSE parse_template_node(first_pair)

\* parse_template taking a text that pest rejects for the empty text
parse_template_without_question_mark(parsed) ==
    LET first_pair == IF parsed.ok THEN Head(parsed.val) ELSE EOI(0)
    IN  IF first_pair.rule = "EOI"
        THEN Ok(ListNode(<<>>, first_pair.span))
        ELSE parse_template_node(first_pair)

\* parsed is the result of TemplateParser::parse(Rule::program, text)
parse_template(parsed) ==
    IF ~parsed.ok THEN Err(from_pest_error(parsed.err))
    ELSE LET first_pair == Head(parsed.val)
         IN  IF first_pair.rule = "EOI"
             THEN Ok(ListNode(<<>>, first_pair.span))
             ELSE parse_template_node(first_pair)

(***************************************************************************)
(* tests::normalize_tree: the AST with every span replaced by the empty    *)
(* span.                                                                   *)
(***************************************************************************)
empty_span == <<0, 0>>

RECURSIVE normalize_tree(_)
normalize_list(nodes) == [i \in 1..Len(nodes) |-> normalize_tree(nodes[i])]

normalize_function_call(function) ==
    FunctionCallNode(function.name, empty_span,
                     normalize_list(function.args), empty_span)

normalize_tree(node) ==
    CASE node.kind = "Identifier" -> IdentifierNode(node.name, empty_span)
      [] node.kind = "Integer" -> IntegerNode(node.value, empty_span)
      [] node.kind = "String" -> StringNode(node.text, empty_span)
      [] node.kind = "List" ->
            ListNode(normalize_list(node.nodes), empty_span)
      [] node.kind = "FunctionCall" ->
            FunctionCallExpr(normalize_function_call(node.function),
                             empty_span)
      [] node.kind = "MethodCall" ->
            MethodCallExpr(normalize_tree(node.object),
                           normalize_function_call(node.function),
                           empty_span)

(***************************************************************************)
(* The evaluation tree.  Properties and templates are boxed trait objects  *)
(* in the program; here each is the term that names how it was made.       *)
(***************************************************************************)
\* Literal(value) of an i64
LiteralInteger(value) == [type |-> "Literal", value |-> value]

\* Literal(value) of a String
LiteralString(text) == [type |-> "Literal", text |-> text]

\* Literal(labels) of a Vec<String>
LiteralLabels(labels) == [type |-> "Literal", labels |-> labels]

\* the closures and property structs of build_commit_keyword
KeywordProperty(name) == [type |-> "Keyword", name |-> name]

\* TemplateFunction::new(property, function)
TemplateFunction(property, function) ==
    [type |-> "TemplateFunction", property |-> property,
     function |-> function]

\* the TemplateProperty of a pair (first, second)
TupleProperty(first, second) ==
    [type |-> "Tuple", first |-> first, second |-> second]

\* the TemplateProperty of an Option<property>
OptionProperty(option) == [type |-> "Option", option |-> option]

PlainTextFormattedProperty(content) ==
    [type |-> "PlainTextFormattedProperty", template |-> content]

FormattablePropertyTemplate(property) ==
    [type |-> "FormattablePropertyTemplate", property |-> property]

LabelTemplate(content, labels) ==
    [type |-> "LabelTemplate", content |-> content, labels |-> labels]

ListTemplate(templates) == [type |-> "ListTemplate", templates |-> templates]

ConditionalTemplate(condition, true_template, false_template) ==
    [type |-> "ConditionalTemplate", condition |-> condition,
     true_template |-> true_template, false_template |-> false_template]

SeparateTemplate(separator, contents) ==
    [type |-> "SeparateTemplate", separator |-> separator,
     contents |-> contents]

\* an i64 below zero: the numeral of its magnitude after the sign, which is
\* written -1
Negative(ds) == <<-1>> \o ds

IsNegative(v) == Head(v) = -1

\* usize::try_from(l) of an i64 l, usize being 64 bits wide
try_into_usize(l) ==
    IF IsNegative(l) THEN Err([tag |-> "TryFromIntError"]) ELSE Ok(l)

\* Result::ok
Result_ok(result) == IF result.ok THEN Some(result.val) ELSE None

\* CommitOrChangeId::short(total_len) and ::shortest(total_len)
CommitOrChangeId_call(id, method, total_len) ==
    [id |-> id, method |-> method, total_len |-> total_len]

\* optional_length with a negative length replaced by its magnitude
optional_length_takes_magnitude(len, default) ==
    IF len = None THEN default
    ELSE IF IsNegative(len[1]) THEN Tail(len[1]) ELSE len[1]

\* len.and_then(|l| l.try_into().ok()).unwrap_or(default)
optional_length(len, default) ==
    LET converted == IF len = None THEN None
                     ELSE Result_ok(try_into_usize(len[1]))
    IN  IF converted = None THEN default ELSE converted[1]

\* the closures handed to TemplateFunction::new and TemplatePropertyFn whose
\* bodies the model evaluates
call_closure(function, value) ==
    CASE function = "is_not_empty" -> value # ""
      [] function = "short" ->
            CommitOrChangeId_call(value[1], "short",
                                  optional_length(value[2], <<1, 2>>))
      [] function = "shortest" ->
            CommitOrChangeId_call(value[1], "shortest",
                                  optional_length(value[2], <<0>>))

RECURSIVE extract(_)
\* TemplateProperty::extract, for properties that do not read the context
extract(property) ==
    CASE property.type = "Literal" /\ "text" \in DOMAIN property ->
            property.text
      [] property.type = "Literal" /\ "value" \in DOMAIN property ->
            property.value
      [] property.type = "Literal" /\ "labels" \in DOMAIN property ->
            property.labels
      [] property.type = "TemplateFunction" ->
            call_closure(property.function, extract(property.property))

\* enum Property: the variant (the value kind) and the boxed property
Property(kind, property) == [kind |-> kind, property |-> property]

PropertyAndLabels(property, labels) ==
    [property |-> property, labels |-> labels]

\* Expression::Property(PropertyAndLabels)
ExpressionProperty(property_labels) ==
    [variant |-> "Property", property_labels |-> property_labels]

\* Expression::Template(template)
ExpressionTemplate(content) == [variant |-> "Template", template |-> content]

\* Property::try_into_boolean that also takes an Integer as a condition
Property_try_into_boolean_takes_integer(self) ==
    CASE self.kind = "String" ->
            Some(TemplateFunction(self.property, "is_not_empty"))
      [] self.kind = "Boolean" -> Some(self.property)
      [] self.kind = "Integer" ->
            Some(TemplateFunction(self.property, "is_not_zero"))
      [] OTHER -> None

Property_try_into_boolean(self) ==
    CASE self.kind = "String" ->
            Some(TemplateFunction(self.property, "is_not_empty"))
      [] self.kind = "Boolean" -> Some(self.property)
      [] OTHER -> None

\* try_into_integer that also takes a String, the way try_into_boolean does
Property_try_into_integer_takes_string(self) ==
    CASE self.kind = "Integer" -> Some(self.property)
      [] self.kind = "String" -> Some(TemplateFunction(self.property, "parse"))
      [] OTHER -> None

Property_try_into_integer(self) ==
    CASE self.kind = "Integer" -> Some(self.property)
      [] OTHER -> None

Property_into_template(self) == FormattablePropertyTemplate(self.property)

Property_into_plain_text(self) ==
    CASE self.kind = "String" -> self.property
      [] OTHER -> PlainTextFormattedProperty(Property_into_template(self))

\* into_template that wraps in a Label whatever the labels
PropertyAndLabels_into_template_always_labelled(self) ==
    LabelTemplate(Property_into_template(self.property),
                  LiteralLabels(self.labels))

PropertyAndLabels_into_template(self) ==
    IF self.labels = <<>>
    THEN Property_into_template(self.property)
    ELSE LabelTemplate(Property_into_template(self.property),
                       LiteralLabels(self.labels))

Expression_try_into_boolean(self) ==
    CASE self.variant = "Property" ->
            Property_try_into_boolean(self.property_labels.property)
      [] self.variant = "Template" -> None

Expression_try_into_integer(self) ==
    CASE self.variant = "Property" ->
            Property_try_into_integer(self.property_labels.property)
      [] self.variant = "Template" -> None

Expression_into_plain_text(self) ==
    CASE self.variant = "Property" ->
            Property_into_plain_text(self.property_labels.property)
      [] self.variant = "Template" -> PlainTextFormattedProperty(self.template)

Expression_into_template(self) ==
    CASE self.variant = "Property" ->
            PropertyAndLabels_into_template(self.property_labels)
      [] self.variant = "Template" -> self.template

(***************************************************************************)
(* Argument-count checks.                                                  *)
(***************************************************************************)
expect_no_arguments(function) ==
    IF function.args = <<>> THEN Ok(<<>>)
    ELSE Err(invalid_argument_count_exact(0, function.args_span))

\* expect_exact_arguments taking the first N of a longer argument list
expect_exact_arguments_takes_prefix(N, function) ==
    IF Len(function.args) >= N THEN Ok(SubSeq(function.args, 1, N))
    ELSE Err(invalid_argument_count_exact(N, function.args_span))

\* the slice converts to an array [_; N] exactly when it has N elements
expect_exact_arguments(N, function) ==
    IF Len(function.args) = N THEN Ok(function.args)
    ELSE Err(invalid_argument_count_exact(N, function.args_span))

\* args.split_at(N)
split_at(args, N) ==
    [required |-> SubSeq(args, 1, N), rest |-> SubSeq(args, N + 1, Len(args))]

\* expect_some_arguments with the comparison > N
expect_some_arguments_more_than(N, function) ==
    IF Len(function.args) > N
    THEN Ok(split_at(function.args, N))
    ELSE Err(invalid_argument_count_range_from(N, function.args_span))

expect_some_arguments(N, function) ==
    IF Len(function.args) >= N
    THEN Ok(split_at(function.args, N))
    ELSE Err(invalid_argument_count_range_from(N, function.args_span))

\* Vec::resize(M, None)
resize(optional, M) ==
    [i \in 1..M |-> IF i <= Len(optional) THEN optional[i] ELSE None]

\* expect_arguments with the half-open range N..(N + M)
expect_arguments_half_open(N, M, function) ==
    IF N <= Len(function.args) /\ Len(function.args) < N + M
    THEN LET parts == split_at(function.args, N)
             optional == [i \in 1..Len(parts.rest) |-> Some(parts.rest[i])]
         IN  Ok([required |-> parts.required,
                 optional |-> resize(optional, M)])
    ELSE Err(invalid_argument_count_range(N, N + M, function.args_span))

expect_arguments(N, M, function) ==
    IF N <= Len(function.args) /\ Len(function.args) <= N + M
    THEN LET parts == split_at(function.args, N)
             optional == [i \in 1..Len(parts.rest) |-> Some(parts.rest[i])]
         IN  Ok([required |-> parts.required,
                 optional |-> resize(optional, M)])
    ELSE Err(invalid_argument_count_range(N, N + M, function.args_span))

(***************************************************************************)
(* Keyword resolvers.  The callers of build_expression in the source are   *)
(* parse_commit_template, which resolves keywords with                     *)
(* build_commit_keyword, and tests::parse, whose callback rejects every    *)
(* keyword.                                                                *)
(***************************************************************************)
CommitKeywordKind(name) ==
    CASE name = "description" -> "String"
      [] name = "change_id" -> "CommitOrChangeId"
      [] name = "commit_id" -> "CommitOrChangeId"
      [] name = "author" -> "Signature"
      [] name = "committer" -> "Signature"
      [] name = "working_copies" -> "String"
      [] name = "current_working_copy" -> "Boolean"
      [] name = "branches" -> "String"
      [] name = "tags" -> "String"
      [] name = "git_refs" -> "String"
      [] name = "git_head" -> "String"
      [] name = "divergent" -> "Boolean"
      [] name = "conflict" -> "Boolean"
      [] name = "empty" -> "Boolean"
      [] OTHER -> NoValue

build_commit_keyword(name, span) ==
    IF CommitKeywordKind(name) = NoValue
    THEN Err(no_such_keyword(name, span))
    ELSE Ok(PropertyAndLabels(
                Property(CommitKeywordKind(name), KeywordProperty(name)),
                <<name>>))

\* the closure of tests::parse
tests_build_keyword(name, span) == Err(no_such_keyword(name, span))

\* build_keyword(name, span) for the callback the caller supplied
call_build_keyword(build_keyword, name, span) ==
    CASE build_keyword = "commit" -> build_commit_keyword(name, span)
      [] build_keyword = "tests" -> tests_build_keyword(name, span)

(***************************************************************************)
(* The expression builder.                                                 *)
(***************************************************************************)
RECURSIVE build_expression(_, _)
RECURSIVE build_method_call(_, _)
RECURSIVE build_global_function(_, _)
RECURSIVE build_string_method(_, _, _)
RECURSIVE build_commit_or_change_id_method(_, _, _)
RECURSIVE parse_optional_integer(_, _)
RECURSIVE build_templates(_, _)

chain_properties(first, second) == TemplateFunction(first, second)

build_string_method(self_property, function, build_keyword) ==
    CASE function.name = "contains" ->
            LET args == expect_exact_arguments(1, function)
                needle == build_expression(args.val[1], build_keyword)
            IN  IF ~args.ok THEN args
                ELSE IF ~needle.ok THEN needle
                ELSE Ok(Property("Boolean", chain_properties(
                        TupleProperty(self_property,
                                      Expression_into_plain_text(needle.val)),
                        "contains")))
      [] function.name = "first_line" ->
            LET args == expect_no_arguments(function)
            IN  IF ~args.ok THEN args
                ELSE Ok(Property("String",
                                 chain_properties(self_property, "first_line")))
      [] OTHER -> Err(no_such_method("String", function))

build_boolean_method(self_property, function, build_keyword) ==
    Err(no_such_method("Boolean", function))

build_integer_method(self_property, function, build_keyword) ==
    Err(no_such_method("Integer", function))

parse_optional_integer(function, build_keyword) ==
    LET args == expect_arguments(0, 1, function)
        len_node == args.val.optional[1]
        p == build_expression(len_node[1], build_keyword)
        len == Expression_try_into_integer(p.val)
    IN  IF ~args.ok THEN args
        ELSE IF len_node = None THEN Ok(None)
        ELSE IF ~p.ok THEN p
        ELSE IF len = None
        THEN Err(invalid_argument_type("Integer", len_node[1].span))
        ELSE Ok(Some(len[1]))

build_commit_or_change_id_method(self_property, function, build_keyword) ==
    CASE function.name = "short" ->
            LET len_property == parse_optional_integer(function, build_keyword)
            IN  IF ~len_property.ok THEN len_property
                ELSE Ok(Property("String", chain_properties(
                        TupleProperty(self_property,
                                      OptionProperty(len_property.val)),
                        "short")))
      [] function.name = "shortest" ->
            LET len_property == parse_optional_integer(function, build_keyword)
            IN  IF ~len_property.ok THEN len_property
                ELSE Ok(Property("ShortestIdPrefix", chain_properties(
                        TupleProperty(self_property,
                                      OptionProperty(len_property.val)),
                        "shortest")))
      [] OTHER -> Err(no_such_method("CommitOrChangeId", function))

build_shortest_id_prefix_method(self_property, function, build_keyword) ==
    CASE function.name = "with_brackets" ->
            LET args == expect_no_arguments(function)
            IN  IF ~args.ok THEN args
                ELSE Ok(Property("String", chain_properties(self_property,
                                                            "with_brackets")))
      [] OTHER -> Err(no_such_method("ShortestIdPrefix", function))

build_signature_method(self_property, function, build_keyword) ==
    CASE function.name = "name" ->
            LET args == expect_no_arguments(function)
            IN  IF ~args.ok THEN args
                ELSE Ok(Property("String",
                                 chain_properties(self_property, "name")))
      [] function.name = "email" ->
            LET args == expect_no_arguments(function)
            IN  IF ~args.ok THEN args
                ELSE Ok(Property("String",
                                 chain_properties(self_property, "email")))
      [] function.name = "username" ->
            LET args == expect_no_arguments(function)
            IN  IF ~args.ok THEN args
                ELSE Ok(Property("String",
                                 chain_properties(self_property, "username")))
      [] function.name = "timestamp" ->
            LET args == expect_no_arguments(function)
            IN  IF ~args.ok THEN args
                ELSE Ok(Property("Timestamp",
                                 chain_properties(self_property, "timestamp")))
      [] OTHER -> Err(no_such_method("Signature", function))

\* build_timestamp_method with the result of ago() given the receiver's kind
build_timestamp_method_wrong_kind(self_property, function, build_keyword) ==
    CASE function.name = "ago" ->
            LET args == expect_no_arguments(function)
            IN  IF ~args.ok THEN args
                ELSE Ok(Property("Timestamp", chain_properties(
                        self_property, "format_timestamp_relative_to_now")))
      [] OTHER -> Err(no_such_method("Timestamp", function))

build_timestamp_method(self_property, function, build_keyword) ==
    CASE function.name = "ago" ->
            LET args == expect_no_arguments(function)
            IN  IF ~args.ok THEN args
                ELSE Ok(Property("String", chain_properties(
                        self_property, "format_timestamp_relative_to_now")))
      [] OTHER -> Err(no_such_method("Timestamp", function))

\* the match on the receiver's Property variant in build_method_call
build_property_method(self, function, build_keyword) ==
    CASE self.kind = "String" ->
            build_string_method(self.property, function, build_keyword)
      [] self.kind = "Boolean" ->
            build_boolean_method(self.property, function, build_keyword)
      [] self.kind = "Integer" ->
            build_integer_method(self.property, function, build_keyword)
      [] self.kind = "CommitOrChangeId" ->
            build_commit_or_change_id_method(self.property, function,
                                             build_keyword)
      [] self.kind = "ShortestIdPrefix" ->
            build_shortest_id_prefix_method(self.property, function,
                                            build_keyword)
      [] self.kind = "Signature" ->
            build_signature_method(self.property, function, build_keyword)
      [] self.kind = "Timestamp" ->
            build_timestamp_method(self.property, function, build_keyword)

\* labels.insert(0, name)
push_front(labels, name) == <<name>> \o labels

\* labels.push(name)
push(labels, name) == Append(labels, name)

\* build_method_call with a Renderable receiver cast to plain text and given
\* the methods of a String
build_method_call_casts_template(method, build_keyword) ==
    LET object == build_expression(method.object, build_keyword)
        self == IF object.val.variant = "Property"
                THEN object.val.property_labels.property
                ELSE Property("String",
                              PlainTextFormattedProperty(object.val.template))
        labels == IF object.val.variant = "Property"
                  THEN object.val.property_labels.labels ELSE <<>>
        property == build_property_method(self, method.function, build_keyword)
    IN  IF ~object.ok THEN object
        ELSE IF ~property.ok THEN property
        ELSE Ok(ExpressionProperty(PropertyAndLabels(property.val,
                    push(labels, method.function.name))))

\* build_method_call that builds the arguments before it looks for the method
build_method_call_builds_arguments_first(method, build_keyword) ==
    LET object == build_expression(method.object, build_keyword)
        arguments == build_templates(method.function.args, build_keyword)
    IN  IF ~object.ok THEN object
        ELSE IF ~arguments.ok THEN arguments
        ELSE IF object.val.variant = "Property"
        THEN LET labels == object.val.property_labels.labels
                 property ==
                    build_property_method(object.val.property_labels.property,
                                          method.function, build_keyword)
             IN  IF ~property.ok THEN property
                 ELSE Ok(ExpressionProperty(PropertyAndLabels(property.val,
                            push(labels, method.function.name))))
        ELSE Err(no_such_method("Template", method.function))

build_method_call(method, build_keyword) ==
    LET object == build_expression(method.object, build_keyword)
    IN  IF ~object.ok THEN object
        ELSE IF object.val.variant = "Property"
        THEN LET labels == object.val.property_labels.labels
                 property ==
                    build_property_method(object.val.property_labels.property,
                                          method.function, build_keyword)
             IN  IF ~property.ok THEN property
                 ELSE Ok(ExpressionProperty(PropertyAndLabels(property.val,
                            push(labels, method.function.name))))
        ELSE Err(no_such_method("Template", method.function))

RECURSIVE build_templates_skips_errors(_, _)
\* build_templates that leaves out the nodes that fail to build
\* (filter_map(Result::ok) in place of try_collect)
build_templates_skips_errors(nodes, build_keyword) ==
    IF nodes = <<>> THEN Ok(<<>>)
    ELSE LET x == build_expression(Head(nodes), build_keyword)
             rest == build_templates_skips_errors(Tail(nodes), build_keyword)
         IN  IF ~x.ok THEN rest
             ELSE Ok(<<Expression_into_template(x.val)>> \o rest.val)

\* build_templates that reports the last failing node in place of the first
build_templates_right_to_left(nodes, build_keyword) ==
    LET n == Len(nodes)
        reversed ==
            try_collect([i \in 1..n |->
                LET x == build_expression(nodes[n + 1 - i], build_keyword)
                IN  IF ~x.ok THEN x ELSE Ok(Expression_into_template(x.val))])
    IN  IF ~reversed.ok THEN reversed
        ELSE Ok([i \in 1..n |-> reversed.val[n + 1 - i]])

\* nodes.iter().map(|node| build_expression(node, build_keyword)
\*     .map(|x| x.into_template())).try_collect()
build_templates(nodes, build_keyword) ==
    try_collect([i \in 1..Len(nodes) |->
        LET x == build_expression(nodes[i], build_keyword)
        IN  IF ~x.ok THEN x ELSE Ok(Expression_into_template(x.val))])

\* build_global_function that, when the condition of if(...) is a String
\* literal, builds only the branch the literal selects
build_global_function_folds_constant_if(function, build_keyword) ==
    CASE function.name = "label" ->
            LET args == expect_exact_arguments(2, function)
                label_node == args.val[1]
                content_node == args.val[2]
                label_expr == build_expression(label_node, build_keyword)
                content == build_expression(content_node, build_keyword)
            IN  IF ~args.ok THEN args
                ELSE IF ~label_expr.ok THEN label_expr
                ELSE IF ~content.ok THEN content
                ELSE Ok(ExpressionTemplate(LabelTemplate(
                        Expression_into_template(content.val),
                        TemplateFunction(
                            Expression_into_plain_text(label_expr.val),
                            "split_whitespace"))))
      [] function.name = "if" ->
            LET args == expect_arguments(2, 1, function)
                condition_node == args.val.required[1]
                true_node == args.val.required[2]
                false_node == args.val.optional[1]
                cond_expr == build_expression(condition_node, build_keyword)
                condition == Expression_try_into_boolean(cond_expr.val)
                constant == condition_node.kind = "String"
                skip_true == constant /\ condition_node.text = ""
                skip_false == constant /\ condition_node.text # ""
                true_expr == build_expression(true_node, build_keyword)
                false_expr == build_expression(false_node[1], build_keyword)
            IN  IF ~args.ok THEN args
                ELSE IF ~cond_expr.ok THEN cond_expr
                ELSE IF condition = None
                THEN Err(invalid_argument_type("Boolean", condition_node.span))
                ELSE IF ~skip_true /\ ~true_expr.ok THEN true_expr
                ELSE IF false_node # None /\ ~skip_false /\ ~false_expr.ok
                THEN false_expr
                ELSE Ok(ExpressionTemplate(ConditionalTemplate(
                        condition[1],
                        IF skip_true THEN ListTemplate(<<>>)
                        ELSE Expression_into_template(true_expr.val),
                        IF false_node = None \/ skip_false THEN None
                        ELSE Some(Expression_into_template(false_expr.val)))))
      [] function.name = "separate" ->
            LET args == expect_some_arguments(1, function)
                separator_node == args.val.required[1]
                content_nodes == args.val.rest
                separator == build_expression(separator_node, build_keyword)
                contents == build_templates(content_nodes, build_keyword)
            IN  IF ~args.ok THEN args
                ELSE IF ~separator.ok THEN separator
                ELSE IF ~contents.ok THEN contents
                ELSE Ok(ExpressionTemplate(SeparateTemplate(
                        Expression_into_template(separator.val),
                        contents.val)))
      [] OTHER -> Err(no_such_function(function))

build_global_function(function, build_keyword) ==
    CASE function.name = "label" ->
            LET args == expect_exact_arguments(2, function)
                label_node == args.val[1]
                content_node == args.val[2]
                label_expr == build_expression(label_node, build_keyword)
                content == build_expression(content_node, build_keyword)
            IN  IF ~args.ok THEN args
                ELSE IF ~label_expr.ok THEN label_expr
                ELSE IF ~content.ok THEN content
                ELSE Ok(ExpressionTemplate(LabelTemplate(
                        Expression_into_template(content.val),
                        TemplateFunction(
                            Expression_into_plain_text(label_expr.val),
                            "split_whitespace"))))
      [] function.name = "if" ->
            LET args == expect_arguments(2, 1, function)
                condition_node == args.val.required[1]
                true_node == args.val.required[2]
                false_node == args.val.optional[1]
                cond_expr == build_expression(condition_node, build_keyword)
                condition == Expression_try_into_boolean(cond_expr.val)
                true_expr == build_expression(true_node, build_keyword)
                false_expr == build_expression(false_node[1], build_keyword)
            IN  IF ~args.ok THEN args
                ELSE IF ~cond_expr.ok THEN cond_expr
                ELSE IF condition = None
                THEN Err(invalid_argument_type("Boolean", condition_node.span))
                ELSE IF ~true_expr.ok THEN true_expr
                ELSE IF false_node # None /\ ~false_expr.ok THEN false_expr
                ELSE Ok(ExpressionTemplate(ConditionalTemplate(
                        condition[1],
                        Expression_into_template(true_expr.val),
                        IF false_node = None THEN None
                        ELSE Some(Expression_into_template(false_expr.val)))))
      [] function.name = "separate" ->
            LET args == expect_some_arguments(1, function)
                separator_node == args.val.required[1]
                content_nodes == args.val.rest
                separator == build_expression(separator_node, build_keyword)
                contents == build_templates(content_nodes, build_keyword)
            IN  IF ~args.ok THEN args
                ELSE IF ~separator.ok THEN separator
                ELSE IF ~contents.ok THEN contents
                ELSE Ok(ExpressionTemplate(SeparateTemplate(
                        Expression_into_template(separator.val),
                        contents.val)))
      [] OTHER -> Err(no_such_function(function))

build_expression(node, build_keyword) ==
    CASE node.kind = "Identifier" ->
            LET term == call_build_keyword(build_keyword, node.name, node.span)
            IN  IF ~term.ok THEN term ELSE Ok(ExpressionProperty(term.val))
      [] node.kind = "Integer" ->
            Ok(ExpressionProperty(PropertyAndLabels(
                Property("Integer", LiteralInteger(node.value)), <<>>)))
      [] node.kind = "String" ->
            Ok(ExpressionProperty(PropertyAndLabels(
                Property("String", LiteralString(node.text)), <<>>)))
      [] node.kind = "List" ->
            LET templates == build_templates(node.nodes, build_keyword)
            IN  IF ~templates.ok THEN templates
                ELSE Ok(ExpressionTemplate(ListTemplate(templates.val)))
      [] node.kind = "FunctionCall" ->
            build_global_function(node.function, build_keyword)
      [] node.kind = "MethodCall" ->
            build_method_call(node, build_keyword)

(***************************************************************************)
(* The template texts the model is run on, as pest parses of the program   *)
(* rule.                                                                   *)
(***************************************************************************)
\* all sequences over S of length lo..hi
SeqsOf(S, lo, hi) == UNION {[1..n -> S] : n \in lo..hi}

MethodNames ==
    {"contains", "first_line", "short", "shortest", "with_brackets",
     "name", "email", "username", "timestamp", "ago", "foo"}

FunctionNames == {"label", "if", "separate", "foo"}

KeywordNames ==
    {"description", "commit_id", "author", "current_working_copy",
     "unknown_kw"}

EmptyString == literal_pair(<<>>)

StringA == literal_pair(<<raw_literal_pair("a")>>)

StringAB == literal_pair(<<raw_literal_pair("ab")>>)

StringB == literal_pair(<<raw_literal_pair("b")>>)

StringFoo == literal_pair(<<raw_literal_pair("foo")>>)

StringZero == literal_pair(<<raw_literal_pair("0")>>)

StringEscapes ==
    literal_pair(<<raw_literal_pair("a"), escape_pair("\\n"),
                   escape_pair("\\\""), escape_pair("\\\\")>>)

\* a term without method chain, and the template made of one such term
Plain(primary) == term_pair(primary, <<>>)

One(t) == template_pair(<<t>>)

AtomPrimaries ==
    {EmptyString, StringA, integer_literal_pair(<<1>>)}
      \cup {identifier_pair(k) : k \in KeywordNames}

\* primaries that build to a Renderable
RenderablePrimaries ==
    { template_pair(<<Plain(EmptyString), Plain(StringA)>>),
      function_pair("label", <<One(Plain(EmptyString)), One(Plain(StringA))>>),
      function_pair("if", <<One(Plain(EmptyString)), One(Plain(StringA))>>),
      function_pair("separate", <<One(Plain(EmptyString))>>) }

\* terms of every value kind, of no value kind, and terms that fail to build
Receivers ==
    {Plain(p) : p \in AtomPrimaries \cup RenderablePrimaries}
      \cup { term_pair(identifier_pair("commit_id"),
                       <<function_pair("shortest", <<>>)>>),
             term_pair(identifier_pair("author"),
                       <<function_pair("timestamp", <<>>)>>),
             term_pair(EmptyString,
                       <<function_pair("contains", <<One(Plain(StringA))>>)>>),
             Plain(template_pair(<<Plain(StringA)>>)) }

SmallArgs ==
    {One(Plain(EmptyString)), One(Plain(integer_literal_pair(<<1>>))),
     One(Plain(identifier_pair("unknown_kw")))}

RichArgs ==
    {One(r) : r \in Receivers}
      \cup {template_pair(<<Plain(StringA), Plain(identifier_pair("author"))>>)}

\* argument lists of at most max arguments: a first argument of First, then
\* arguments of Rest
ArgLists(First, Rest, max) ==
    {<<>>} \cup {<<a>> \o rest : a \in First, rest \in SeqsOf(Rest, 0, max - 1)}

MethodFirstArgs ==
    SmallArgs
      \cup { One(Plain(literal_pair(<<raw_literal_pair("1")>>))),
             One(Plain(identifier_pair("current_working_copy"))),
             One(Plain(identifier_pair("description"))),
             One(Plain(identifier_pair("commit_id"))),
             One(Plain(function_pair("label", <<One(Plain(EmptyString)),
                                                One(Plain(StringA))>>))),
             template_pair(<<Plain(StringA), Plain(StringA)>>) }

MethodRestArgs == {One(Plain(identifier_pair("unknown_kw")))}

\* one more method call on a receiver
MethodCallTerms ==
    {term_pair(Head(r.inner),
               Tail(r.inner)
                 \o <<function_pair(m, SubSeq(args, 1, Len(args)))>>) :
        r \in Receivers, m \in MethodNames,
        args \in ArgLists(MethodFirstArgs, MethodRestArgs, MaxMethodArgs)}

ChainLinks ==
    {function_pair(m, <<>>) :
        m \in {"first_line", "shortest", "with_brackets", "timestamp", "foo"}}
      \cup {function_pair("short",
                          <<One(Plain(integer_literal_pair(<<1>>)))>>)}

ChainPrimaries ==
    {EmptyString, identifier_pair("commit_id"), identifier_pair("author"),
     identifier_pair("unknown_kw")}

ChainTerms ==
    {term_pair(p, SubSeq(c, 1, Len(c))) :
        p \in ChainPrimaries, c \in SeqsOf(ChainLinks, 0, MaxChain)}

FunctionCallTerms ==
    {Plain(function_pair(f, SubSeq(args, 1, Len(args)))) :
        f \in FunctionNames, args \in ArgLists(RichArgs, SmallArgs, MaxArgs)}

ListTerms ==
    {Plain(StringA), Plain(StringB), Plain(integer_literal_pair(<<0>>)),
     Plain(identifier_pair("description")),
     Plain(identifier_pair("unknown_kw"))}

\* numerals around i64::MAX = 9223372036854775807: below it with 18 and 19
\* digits, above it in the last, in an inner and in the first digit, u64::MAX
\* and 10^19
BoundaryNumerals ==
    { <<9,9,9,9,9,9,9,9,9,9,9,9,9,9,9,9,9,9>>,
      <<1,0,0,0,0,0,0,0,0,0,0,0,0,0,0,0,0,0,0>>,
      <<9,2,2,3,3,7,2,0,3,6,8,5,4,7,7,5,8,0,6>>,
      <<9,2,2,3,3,7,2,0,3,6,8,5,4,7,7,5,7,9,9>>,
      <<9,2,2,3,3,7,2,0,3,6,8,5,4,7,7,5,8,0,9>>,
      <<9,2,2,3,3,7,2,0,3,6,8,5,4,7,7,5,8,1,0>>,
      <<9,2,2,3,3,7,2,1,0,0,0,0,0,0,0,0,0,0,0>>,
      <<9,3,0,0,0,0,0,0,0,0,0,0,0,0,0,0,0,0,0>>,
      <<1,8,4,4,6,7,4,4,0,7,3,7,0,9,5,5,1,6,1,5>>,
      <<1,0,0,0,0,0,0,0,0,0,0,0,0,0,0,0,0,0,0,0>> }

LiteralTerms ==
    {Plain(StringAB), Plain(StringFoo), Plain(StringZero),
     Plain(StringEscapes),
     Plain(integer_literal_pair(<<0>>)),
     Plain(integer_literal_pair(<<4, 2>>)),
     Plain(integer_literal_pair(I64MaxDigits)),
     Plain(integer_literal_pair(<<9,2,2,3,3,7,2,0,3,6,8,5,4,7,7,5,8,0,8>>))}
      \cup {Plain(integer_literal_pair(ds)) : ds \in BoundaryNumerals}
      \cup {Plain(template_pair(<<Plain(integer_literal_pair(ds))>>)) :
                ds \in {<<4, 2>>, I64MaxDigits,
                        <<9,2,2,3,3,7,2,0,3,6,8,5,4,7,7,5,8,0,8>>}}

Templates ==
    {One(t) : t \in Receivers \cup MethodCallTerms \cup ChainTerms
                      \cup FunctionCallTerms \cup LiteralTerms}
      \cup {template_pair(SubSeq(ts, 1, Len(ts))) :
                ts \in SeqsOf(ListTerms, 2, MaxTerms)}
      \cup {template_pair(<<Plain(StringFoo), Plain(StringZero)>>),
            template_pair(<<Plain(StringFoo),
                            Plain(integer_literal_pair(<<0>>))>>)}

\* the results of TemplateParser::parse(Rule::program, text) for the texts
\* that follow the grammar
Sources == {Ok(Program(t)) : t \in Templates} \cup {Ok(EmptyProgram)}

\* most tokens (arguments and commas) in the argument lists that are written
\* out comma by comma
MaxTokens == 5

\* argument lists over one argument and the comma, well-formed or not; two
\* arguments without a comma between them would be one argument of two terms
TokenLists ==
    {ts \in SeqsOf({One(Plain(EmptyString)), Comma}, 0, MaxTokens) :
        \A i \in 1..(Len(ts) - 1) : ts[i].rule = "," \/ ts[i + 1].rule = ","}

call_text(name, tokens) ==
    [rule |-> "function", str |-> NoValue,
     inner |-> <<identifier_pair(name),
                 [rule |-> "function_arguments", str |-> NoValue,
                  inner |-> tokens]>>]

\* "".first_line(...), "".contains(...) and label(...) with every such list
CommaTexts ==
    {One(term_pair(EmptyString, <<call_text(m, SubSeq(ts, 1, Len(ts)))>>)) :
        m \in {"first_line", "contains"}, ts \in TokenLists}
      \cup {One(Plain(call_text("label", SubSeq(ts, 1, Len(ts))))) :
                ts \in TokenLists}

\* integer literals written with a leading zero, and the empty parentheses
MalformedTexts ==
    {One(Plain(integer_literal_pair(ds))) :
        ds \in {<<0, 0>>, <<0, 1>>, <<0, 4, 2>>}}
      \cup {One(Plain(EmptyText)),
            One(term_pair(EmptyText, <<function_pair("foo", <<>>)>>))}

Texts ==
    {Text(t) : t \in Templates}
      \cup {EmptyText} \cup CommaTexts \cup MalformedTexts

(***************************************************************************)
(* The two entry points: parse_commit_template (resolver "commit") and     *)
(* tests::parse (resolver "tests"), one action per step.                   *)
(***************************************************************************)
NotYet == [ok |-> FALSE, pending |-> TRUE]

Init ==
    /\ pc = "start"
    /\ resolver \in {"commit", "tests"}
    /\ template_text \in Texts
    /\ source = NotYet
    /\ ast = NotYet
    /\ built = NotYet
    /\ output = NotYet
    /\ closure_input = NotYet
    /\ closure_output = NotYet

\* let node = parse_template(template_text)?;
ParseTemplate ==
    /\ pc = "start"
    /\ source' = TemplateParser_parse(template_text)
    /\ ast' = parse_template(source')
    /\ pc' = IF ast'.ok THEN "parsed" ELSE "failed"
    /\ UNCHANGED <<resolver, template_text, built, output, closure_input,
                   closure_output>>

\* let expression = build_expression(&node, &build_keyword)?;
BuildExpression ==
    /\ pc = "parsed"
    /\ built' = build_expression(ast.val, resolver)
    /\ pc' = IF built'.ok THEN "built" ELSE "failed"
    /\ UNCHANGED <<resolver, template_text, source, ast, output, closure_input,
                   closure_output>>

\* Ok(expression.into_template())
IntoTemplate ==
    /\ pc = "built"
    /\ resolver = "commit"
    /\ output' = Ok(Expression_into_template(built.val))
    /\ pc' = "done"
    /\ UNCHANGED <<resolver, template_text, source, ast, built, closure_input,
                   closure_output>>

Next == ParseTemplate \/ BuildExpression \/ IntoTemplate

Spec == Init /\ [][Next]_vars

(***************************************************************************)
(* Rendering: the closures that build_commit_or_change_id_method puts in    *)
(* a short / shortest property are called with the (id, len) extracted      *)
(* from the context.  len is an Option<i64>: every i64 is a value the       *)
(* closure may be handed.                                                  *)
(***************************************************************************)
\* most digits of the lengths that are enumerated in full
MaxLengthDigits == 2

\* i64 values of at most MaxLengthDigits digits, at and around the ends of
\* i64 and at 2^32
Lengths ==
    LET magnitudes ==
            {ds \in SeqsOf(0..9, 1, MaxLengthDigits) :
                Len(ds) = 1 \/ Head(ds) # 0}
              \cup {<<4,2,9,4,9,6,7,2,9,6>>, I64MaxDigits}
    IN  magnitudes
          \cup {Negative(m) : m \in magnitudes \ {<<0>>}}
          \cup {Negative(<<9,2,2,3,3,7,2,0,3,6,8,5,4,7,7,5,8,0,8>>)}

ClosureInputs ==
    [function : {"short", "shortest"},
     id : {"commit_id", "change_id"},
     len : {None} \cup {Some(l) : l \in Lengths}]

InitClosure ==
    /\ pc = "render"
    /\ resolver = "commit"
    /\ template_text = NotYet
    /\ source = NotYet
    /\ ast = NotYet
    /\ built = NotYet
    /\ output = NotYet
    /\ closure_input \in ClosureInputs
    /\ closure_output = NotYet

\* |(id, len): &(CommitOrChangeId, Option<i64>)| id.short(...) / id.shortest(...)
CallClosure ==
    /\ pc = "render"
    /\ closure_output' =
          call_closure(closure_input.function,
                       <<closure_input.id, closure_input.len>>)
    /\ pc' = "rendered"
    /\ UNCHANGED <<resolver, template_text, source, ast, built, output,
                   closure_input>>

NextClosure == CallClosure

SpecClosure == InitClosure /\ [][NextClosure]_vars

(***************************************************************************)
(* Properties.                                                             *)
(***************************************************************************)
\* build_expression has returned
BuildReturned == built # NotYet

\* the Expression is a Property of the given kind
IsPropertyOfKind(e, kind) ==
    e.variant = "Property" /\ e.property_labels.property.kind = kind

\* the method table of the specification: the result kind of method m on a
\* value of kind K, NoValue when K has no method m
MethodTable(K, m) ==
    CASE K = "String" /\ m = "contains" -> "Boolean"
      [] K = "String" /\ m = "first_line" -> "String"
      [] K = "CommitOrChangeId" /\ m = "short" -> "String"
      [] K = "CommitOrChangeId" /\ m = "shortest" -> "ShortestIdPrefix"
      [] K = "ShortestIdPrefix" /\ m = "with_brackets" -> "String"
      [] K = "Signature" /\ m \in {"name", "email", "username"} -> "String"
      [] K = "Signature" /\ m = "timestamp" -> "Timestamp"
      [] K = "Timestamp" /\ m = "ago" -> "String"
      [] OTHER -> NoValue

\* the receiver of the method call at the root of the AST, built on its own
RootReceiver == build_expression(ast.val.object, resolver)

RootIsMethodCall == BuildReturned /\ ast.val.kind = "MethodCall"

RootIsFunctionCall == BuildReturned /\ ast.val.kind = "FunctionCall"

\* C1: a method call on a Property of kind K builds only if the method is in
\* K's table, its result then has the kind the table lists, and a method
\* that is not in K's table fails with NoSuchMethod{K, m} at the method
\* name, whatever its arguments.
C1_MethodTyping ==
    (RootIsMethodCall /\ RootReceiver.ok
        /\ RootReceiver.val.variant = "Property") =>
        LET K == RootReceiver.val.property_labels.property.kind
            m == ast.val.function.name
        IN  /\ built.ok =>
                /\ MethodTable(K, m) # NoValue
                /\ IsPropertyOfKind(built.val, MethodTable(K, m))
            /\ MethodTable(K, m) = NoValue =>
                built = Err([kind |-> [tag |-> "NoSuchMethod",
                                       type_name |-> K, name |-> m],
                             span |-> ast.val.function.name_span])

\* a Signature receiver whose timestamp() built to a Timestamp
C1_Witness ==
    /\ RootIsMethodCall /\ RootReceiver.ok
    /\ IsPropertyOfKind(RootReceiver.val, "Timestamp")
    /\ ast.val.function.name = "ago"
    /\ built.ok /\ IsPropertyOfKind(built.val, "String")

\* C2: a method call whose receiver builds to a Renderable fails with
\* NoSuchMethod{"Template", m} for every method name and argument list.
C2_TemplateHasNoMethods ==
    (RootIsMethodCall /\ RootReceiver.ok
        /\ RootReceiver.val.variant = "Template") =>
        built = Err([kind |-> [tag |-> "NoSuchMethod",
                               type_name |-> "Template",
                               name |-> ast.val.function.name],
                     span |-> ast.val.function.name_span])

\* first_line("a") called on a List of two terms
C2_Witness ==
    /\ RootIsMethodCall /\ RootReceiver.ok
    /\ RootReceiver.val.variant = "Template"
    /\ ast.val.object.kind = "List"
    /\ ast.val.function.name = "first_line"
    /\ Len(ast.val.function.args) = 2
    /\ ~built.ok

\* the arguments of the function call at the root of the AST
RootArgs == ast.val.function.args

\* the if(...) call at the root of the AST has 2 or 3 arguments and its
\* condition builds
RootIsIfWithCondition ==
    /\ RootIsFunctionCall /\ ast.val.function.name = "if"
    /\ Len(RootArgs) \in 2..3
    /\ build_expression(RootArgs[1], resolver).ok

RootCondition == build_expression(RootArgs[1], resolver).val

ConditionTypeError ==
    Err([kind |-> [tag |-> "InvalidArgumentType", expected |-> "Boolean"],
         span |-> RootArgs[1].span])

\* C3: the condition of if(cond, ...) is accepted exactly when it builds to
\* a Boolean Property (used as is) or a String Property (true iff the string
\* is not empty); any other kind of Property and any Renderable fails with
\* InvalidArgumentType("Boolean") at the span of cond.
C3_IfCondition ==
    RootIsIfWithCondition =>
        CASE IsPropertyOfKind(RootCondition, "Boolean") ->
                /\ built # ConditionTypeError
                /\ built.ok =>
                     built.val.template.condition
                        = RootCondition.property_labels.property.property
          [] IsPropertyOfKind(RootCondition, "String") ->
                /\ built # ConditionTypeError
                /\ built.ok =>
                     built.val.template.condition.property
                        = RootCondition.property_labels.property.property
                /\ (built.ok /\ RootArgs[1].kind = "String") =>
                     extract(built.val.template.condition)
                        = (RootArgs[1].text # "")
          [] OTHER -> built = ConditionTypeError

\* an if whose condition is a Timestamp was refused
C3_Witness ==
    /\ RootIsIfWithCondition
    /\ IsPropertyOfKind(RootCondition, "Timestamp")
    /\ built = ConditionTypeError

\* the call (function or method) at the root of the AST
RootCall == ast.val.function

\* the kind of the receiver of the method call at the root of the AST,
\* NoValue when there is no such receiver or it is no Property
RootReceiverKind ==
    IF RootIsMethodCall /\ RootReceiver.ok
          /\ RootReceiver.val.variant = "Property"
    THEN RootReceiver.val.property_labels.property.kind
    ELSE NoValue

\* the number of arguments the specification requires of the call at the
\* root of the AST when it requires an exact number, -1 otherwise
ExactArity ==
    CASE RootIsFunctionCall /\ RootCall.name = "label" -> 2
      [] RootReceiverKind = "String" /\ RootCall.name = "contains" -> 1
      [] RootReceiverKind = "String" /\ RootCall.name = "first_line" -> 0
      [] RootReceiverKind = "ShortestIdPrefix"
            /\ RootCall.name = "with_brackets" -> 0
      [] RootReceiverKind = "Signature"
            /\ RootCall.name \in {"name", "email", "username", "timestamp"}
            -> 0
      [] RootReceiverKind = "Timestamp" /\ RootCall.name = "ago" -> 0
      [] OTHER -> -1

ExactCountError(N) ==
    Err([kind |-> [tag |-> "InvalidArgumentCountExact", count |-> N],
         span |-> RootCall.args_span])

\* C4: a call that requires exactly N arguments passes the arity check if
\* and only if it has N arguments; otherwise the build fails with
\* InvalidArgumentCountExact(N) at the call's args_span.
C4_ExactArity ==
    ExactArity >= 0 =>
        /\ Len(RootCall.args) # ExactArity => built = ExactCountError(ExactArity)
        /\ Len(RootCall.args) = ExactArity => built # ExactCountError(ExactArity)

\* label with three arguments was refused
C4_Witness ==
    /\ RootIsFunctionCall /\ RootCall.name = "label"
    /\ Len(RootCall.args) = 3
    /\ built = ExactCountError(2)

\* the required and optional numbers of arguments of the call at the root
\* of the AST, <<>> when it has no such contract
RangeArity ==
    CASE RootIsFunctionCall /\ RootCall.name = "if" -> <<2, 1>>
      [] RootReceiverKind = "CommitOrChangeId"
            /\ RootCall.name \in {"short", "shortest"} -> <<0, 1>>
      [] OTHER -> <<>>

RangeCountError(N, M) ==
    Err([kind |-> [tag |-> "InvalidArgumentCountRange",
                   start |-> N, end |-> N + M],
         span |-> RootCall.args_span])

\* the optional length of a short/shortest property
LenOption(e) == e.property_labels.property.property.property.second.option

\* C5: a call with N required and M optional arguments passes the arity
\* check if and only if it has N to N+M arguments; the check returns the
\* first N arguments and M optional slots, absent beyond the supplied
\* arguments; otherwise the build fails with
\* InvalidArgumentCountRange(N..=N+M) at args_span.
C5_RangeArity ==
    RangeArity # <<>> =>
        LET N == RangeArity[1]
            M == RangeArity[2]
            n == Len(RootCall.args)
            got == expect_arguments(N, M, RootCall)
        IN  /\ (n < N \/ n > N + M) =>
                built = RangeCountError(N, M) /\ got = RangeCountError(N, M)
            /\ (N <= n /\ n <= N + M) =>
                /\ built # RangeCountError(N, M)
                /\ got.ok
                /\ got.val.required = SubSeq(RootCall.args, 1, N)
                /\ Len(got.val.optional) = M
                /\ \A i \in 1..M :
                      got.val.optional[i] =
                         IF N + i <= n THEN Some(RootCall.args[N + i])
                         ELSE None
                /\ (built.ok /\ RootCall.name = "if") =>
                      (built.val.template.false_template = None) = (n = 2)
                /\ (built.ok /\ RootCall.name # "if") =>
                      (LenOption(built.val) = None) = (n = 0)

\* an if with two arguments was built without a false branch
C5_Witness ==
    /\ RootIsFunctionCall /\ RootCall.name = "if"
    /\ Len(RootCall.args) = 2
    /\ built.ok /\ built.val.template.false_template = None

RangeFromError ==
    Err([kind |-> [tag |-> "InvalidArgumentCountRangeFrom", start |-> 1],
         span |-> RootCall.args_span])

\* the Renderable an argument node builds to
ArgTemplate(arg) ==
    Expression_into_template(build_expression(arg, resolver).val)

\* C6: separate(...) passes the arity check if and only if it has at least
\* one argument; the first argument is the separator, the others are the
\* contents in source order; without arguments the build fails with
\* InvalidArgumentCountRangeFrom(1..) at args_span.
C6_SeparateArity ==
    (RootIsFunctionCall /\ RootCall.name = "separate") =>
        LET n == Len(RootCall.args)
        IN  /\ n = 0 => built = RangeFromError
            /\ n >= 1 => built # RangeFromError
            /\ (n >= 1 /\ built.ok) =>
                /\ built.val.template.type = "SeparateTemplate"
                /\ built.val.template.separator = ArgTemplate(RootCall.args[1])
                /\ Len(built.val.template.contents) = n - 1
                /\ \A i \in 1..(n - 1) :
                      built.val.template.contents[i]
                         = ArgTemplate(RootCall.args[i + 1])

\* a separate with a separator and two contents was built
C6_Witness ==
    /\ RootIsFunctionCall /\ RootCall.name = "separate"
    /\ Len(RootCall.args) = 3
    /\ built.ok /\ Len(built.val.template.contents) = 2

RECURSIVE ChainNames(_)
\* the method names of a chain, in source order
ChainNames(n) ==
    IF n.kind = "MethodCall"
    THEN Append(ChainNames(n.object), n.function.name)
    ELSE <<>>

RECURSIVE ChainBase(_)
\* the primary a method chain starts from
ChainBase(n) == IF n.kind = "MethodCall" THEN ChainBase(n.object) ELSE n

\* the labels the primary of a chain starts with: those of the resolver for
\* a keyword, none for a literal
BaseLabels(n) ==
    IF n.kind = "Identifier"
    THEN call_build_keyword(resolver, n.name, n.span).val.labels
    ELSE <<>>

\* C7: when a chain k.m1(...)...mn(...) builds, the resulting Property
\* carries the labels of k followed by m1, ..., mn in source order; integer
\* and string literals start without labels.
C7_LabelAccumulation ==
    (BuildReturned /\ built.ok
        /\ ChainBase(ast.val).kind \in {"Identifier", "Integer", "String"}) =>
        /\ built.val.variant = "Property"
        /\ built.val.property_labels.labels
              = BaseLabels(ChainBase(ast.val)) \o ChainNames(ast.val)

\* a chain of three methods on a keyword was built
C7_Witness ==
    /\ BuildReturned /\ built.ok
    /\ ChainBase(ast.val).kind = "Identifier"
    /\ Len(ChainNames(ast.val)) = 3
    /\ Len(built.val.property_labels.labels) = 4

RECURSIVE SubNodes(_)
\* the node n and every node below it
SubNodes(n) ==
    {n} \cup
    CASE n.kind = "List" ->
            UNION {SubNodes(n.nodes[i]) : i \in 1..Len(n.nodes)}
      [] n.kind = "FunctionCall" ->
            UNION {SubNodes(n.function.args[i]) :
                        i \in 1..Len(n.function.args)}
      [] n.kind = "MethodCall" ->
            SubNodes(n.object)
              \cup UNION {SubNodes(n.function.args[i]) :
                            i \in 1..Len(n.function.args)}
      [] OTHER -> {}

\* C8: build_expression returns either an evaluation tree or one error; if
\* any sub-expression fails to build, the build returns an error and no
\* tree, and parse_commit_template then returns no template.
C8_FailFast ==
    BuildReturned =>
        /\ built.ok =>
              /\ DOMAIN built = {"ok", "val"}
              /\ \A n \in SubNodes(ast.val) :
                    build_expression(n, resolver).ok
        /\ ~built.ok =>
              /\ DOMAIN built = {"ok", "err"}
              /\ DOMAIN built.err = {"kind", "span"}
              /\ pc = "failed"
              /\ output = NotYet
        /\ (ast.val.kind = "List" /\ built.ok) =>
              Len(built.val.template.templates) = Len(ast.val.nodes)

\* the second term of a List failed to build, and so did the List
C8_Witness ==
    /\ BuildReturned /\ ast.val.kind = "List" /\ Len(ast.val.nodes) >= 2
    /\ build_expression(ast.val.nodes[1], resolver).ok
    /\ ~build_expression(ast.val.nodes[2], resolver).ok
    /\ ~built.ok /\ pc = "failed"

\* C9: a function call whose name is not label, if or separate fails with
\* NoSuchFunction(name) at the span of the function name.
C9_NoSuchFunction ==
    (RootIsFunctionCall /\ RootCall.name \notin {"label", "if", "separate"})
        => built = Err([kind |-> [tag |-> "NoSuchFunction",
                                  name |-> RootCall.name],
                        span |-> RootCall.name_span])

\* foo(unknown_kw) was refused for its name
C9_Witness ==
    /\ RootIsFunctionCall /\ RootCall.name = "foo"
    /\ Len(RootCall.args) = 1
    /\ RootCall.args[1].kind = "Identifier"
    /\ ~built.ok /\ built.err.kind.tag = "NoSuchFunction"

\* parse_template has returned
ParseReturned == ast # NotYet

\* the template pair of the text, when pest accepts the text and the text is
\* not empty
SourceTemplate == Head(IF source.ok THEN source.val ELSE EmptyProgram)

\* a term whose primary is a parenthesised template of exactly one term
IsParenthesisedTerm(t) ==
    Head(t.inner).rule = "template" /\ Len(Head(t.inner).inner) = 1

\* the term t written without these parentheses
Unparenthesised(t) ==
    LET u == Head(Head(t.inner).inner)
    IN  term_pair(Head(u.inner), Tail(u.inner) \o Tail(t.inner))

\* the AST of a text, without spans
NormalizedParse(t) == normalize_tree(parse_template(Ok(Program(t))).val)

TextAB == One(Plain(StringAB))

TextAThenB == template_pair(<<Plain(StringA), Plain(StringB)>>)

TextFooThenStringZero == template_pair(<<Plain(StringFoo), Plain(StringZero)>>)

TextFooThenZero ==
    template_pair(<<Plain(StringFoo), Plain(integer_literal_pair(<<0>>))>>)

\* C10: a template of exactly one term yields that term's node, so that
\* parentheses around a single term do not change the AST, spans aside; a
\* template of two or more terms yields a List of the terms in source
\* order; "ab" and "a" "b" are not AST-equal, nor are "foo" "0" and "foo" 0.
C10_TemplateCollapsing ==
    (ParseReturned /\ SourceTemplate.rule = "template") =>
        LET terms == SourceTemplate.inner
            n == Len(terms)
        IN  /\ n = 1 => ast = parse_term_node(terms[1])
            /\ (n = 1 /\ ast.ok /\ IsParenthesisedTerm(terms[1])) =>
                  normalize_tree(ast.val)
                     = NormalizedParse(One(Unparenthesised(Unspan(terms[1]))))
            /\ (n >= 2 /\ ast.ok) =>
                  /\ ast.val.kind = "List"
                  /\ ast.val.span = SourceTemplate.span
                  /\ Len(ast.val.nodes) = n
                  /\ \A i \in 1..n :
                        ast.val.nodes[i] = parse_term_node(terms[i]).val
            /\ source = Ok(Program(TextAB)) =>
                  /\ ast.val.kind = "String"
                  /\ normalize_tree(ast.val) # NormalizedParse(TextAThenB)
            /\ source = Ok(Program(TextAThenB)) =>
                  /\ ast.val.kind = "List" /\ Len(ast.val.nodes) = 2
                  /\ normalize_tree(ast.val) # NormalizedParse(TextAB)
            /\ source = Ok(Program(TextFooThenStringZero)) =>
                  normalize_tree(ast.val) # NormalizedParse(TextFooThenZero)

\* a single term between parentheses was parsed to the term's node
C10_Witness ==
    /\ ParseReturned /\ SourceTemplate.rule = "template"
    /\ Len(SourceTemplate.inner) = 1
    /\ IsParenthesisedTerm(SourceTemplate.inner[1])
    /\ ast.ok /\ ast.val.kind = "String"

\* the text is one term that ends in a call, a function call or the last
\* method call of a chain
TextEndsInCall ==
    /\ Len(template_text.inner) = 1
    /\ LET links == template_text.inner[1].inner
       IN  links[Len(links)].rule = "function"

\* that call, and the arguments and commas written between its parentheses
TextLastCall ==
    LET links == template_text.inner[1].inner IN links[Len(links)]

TextCallTokens == TextLastCall.inner[2].inner

\* everything in the text but the commas of that call follows the grammar
TextWellFormedButCommas ==
    /\ \A i \in 1..Len(TextCallTokens) :
          TextCallTokens[i].rule # ","
             => syntax_error(TextCallTokens[i], 0) = None
    /\ LET links == template_text.inner[1].inner
       IN  \A i \in 1..(Len(links) - 1) : syntax_error(links[i], 0) = None

\* one or more arguments separated by single commas, with at most one
\* trailing comma: the first token is an argument and no two neighbours are
\* both commas or both arguments
CommaRule(tokens) ==
    \/ tokens = <<>>
    \/ /\ tokens[1].rule # ","
       /\ \A i \in 1..(Len(tokens) - 1) :
             (tokens[i].rule = ",") # (tokens[i + 1].rule = ",")

SyntaxRejected == ~ast.ok /\ ast.err.kind.tag = "SyntaxError"

\* C11: the argument list of a function call or of a method call parses if
\* and only if it is empty, or is one or more arguments separated by single
\* commas with at most one trailing comma; otherwise (a comma alone, a
\* leading comma, two commas in a row) parse_template fails with
\* SyntaxError.  A list that parses yields its arguments in order.
C11_CommaRule ==
    (ParseReturned /\ TextEndsInCall /\ TextWellFormedButCommas) =>
        LET tokens == TextCallTokens
            arguments == SelectSeq(tokens, LAMBDA x : x.rule # ",")
        IN  /\ SyntaxRejected <=> ~CommaRule(tokens)
            /\ source.ok <=> CommaRule(tokens)
            /\ ast.ok =>
                  LET call == ast.val.function
                  IN  /\ Len(call.args) = Len(arguments)
                      /\ \A i \in 1..Len(arguments) :
                            normalize_tree(call.args[i])
                               = normalize_tree(
                                    parse_template(
                                       TemplateParser_parse(arguments[i])).val)
            /\ (TextCallTokens = <<Comma>>) => SyntaxRejected
            /\ (tokens # <<>> /\ tokens[1] = Comma) => SyntaxRejected
            /\ (\E i \in 1..(Len(tokens) - 1) :
                   tokens[i] = Comma /\ tokens[i + 1] = Comma)
                  => SyntaxRejected

\* "".contains("",) was parsed to a method call with one argument
TrailingCommaAccepted ==
    /\ ParseReturned /\ TextEndsInCall
    /\ TextLastCall.inner[1].str = "contains"
    /\ Len(TextCallTokens) = 2 /\ TextCallTokens[2] = Comma
    /\ ast.ok /\ ast.val.kind = "MethodCall"
    /\ Len(ast.val.function.args) = 1

\* label("",,"") was rejected
C11_Witness ==
    /\ ParseReturned /\ TextEndsInCall
    /\ TextLastCall.inner[1].str = "label"
    /\ Len(TextCallTokens) = 4
    /\ TextCallTokens[2] = Comma /\ TextCallTokens[3] = Comma
    /\ SyntaxRejected

\* the text is one integer literal, bare or between parentheses
TextIsIntegerLiteral ==
    /\ Len(template_text.inner) = 1
    /\ Len(template_text.inner[1].inner) = 1
    /\ LET primary == template_text.inner[1].inner[1]
       IN  \/ primary.rule = "integer_literal"
           \/ /\ primary.rule = "template"
              /\ Len(primary.inner) = 1
              /\ Len(primary.inner[1].inner) = 1
              /\ primary.inner[1].inner[1].rule = "integer_literal"

TextLiteralParenthesised ==
    template_text.inner[1].inner[1].rule = "template"

\* the digits of that literal and the span pest gives it
TextLiteralDigits ==
    LET primary == template_text.inner[1].inner[1]
    IN  IF TextLiteralParenthesised
        THEN primary.inner[1].inner[1].digits
        ELSE primary.digits

TextLiteralSpan ==
    IF TextLiteralParenthesised THEN <<1, 2>> ELSE <<0, 1>>

RECURSIVE DigitsValue(_)
\* the value of a numeral of at most nine digits
DigitsValue(ds) ==
    IF ds = <<>> THEN 0
    ELSE 10 * DigitsValue(SubSeq(ds, 1, Len(ds) - 1)) + ds[Len(ds)]

\* the value of a numeral of at most 27 digits as three limbs in base 10^9,
\* most significant first
Limbs(ds) ==
    LET padded == [i \in 1..(27 - Len(ds)) |-> 0] \o ds
    IN  <<DigitsValue(SubSeq(padded, 1, 9)),
          DigitsValue(SubSeq(padded, 10, 18)),
          DigitsValue(SubSeq(padded, 19, 27))>>

LimbsLeq(a, b) ==
    \/ a[1] < b[1]
    \/ a[1] = b[1] /\ a[2] < b[2]
    \/ a[1] = b[1] /\ a[2] = b[2] /\ a[3] <= b[3]

\* v <= i64::MAX = 9 * 10^18 + 223372036 * 10^9 + 854775807
FitsI64(ds) == LimbsLeq(Limbs(ds), <<9, 223372036, 854775807>>)

HasLeadingZero(ds) == Len(ds) > 1 /\ Head(ds) = 0

\* C12: an integer literal that is "0" or has no leading zero and whose
\* value v is at most i64::MAX parses to Integer(v) and builds to a constant
\* Integer property without labels whose extracted value is exactly v, also
\* at v = i64::MAX and between parentheses; with v >= i64::MAX + 1
\* parse_template fails with ParseIntError at the span of the literal; a
\* literal with a leading zero, such as "00", is a syntax error.
C12_IntegerLiteral ==
    (ParseReturned /\ TextIsIntegerLiteral) =>
        LET ds == TextLiteralDigits
        IN  /\ HasLeadingZero(ds) => SyntaxRejected
            /\ (~HasLeadingZero(ds) /\ FitsI64(ds)) =>
                  /\ ast = Ok(IntegerNode(ds, TextLiteralSpan))
                  /\ BuildReturned =>
                        /\ built.ok
                        /\ IsPropertyOfKind(built.val, "Integer")
                        /\ built.val.property_labels.labels = <<>>
                        /\ Expression_try_into_integer(built.val) # None
                        /\ extract(Expression_try_into_integer(built.val)[1])
                              = ds
            /\ (~HasLeadingZero(ds) /\ ~FitsI64(ds)) =>
                  /\ ~ast.ok
                  /\ ast.err.kind.tag = "ParseIntError"
                  /\ ast.err.span = TextLiteralSpan

\* i64::MAX was built to an Integer property
C12_Witness ==
    /\ TextIsIntegerLiteral /\ TextLiteralDigits = I64MaxDigits
    /\ BuildReturned /\ built.ok
    /\ extract(Expression_try_into_integer(built.val)[1]) = I64MaxDigits

\* i64::MAX + 1 between parentheses was rejected by parse_template
IntegerOverflowRejected ==
    /\ TextIsIntegerLiteral /\ TextLiteralParenthesised
    /\ ParseReturned /\ ~ast.ok /\ ast.err.kind.tag = "ParseIntError"

\* "00" was rejected by the grammar
LeadingZeroRejected ==
    /\ TextIsIntegerLiteral /\ TextLiteralDigits = <<0, 0>>
    /\ ParseReturned /\ SyntaxRejected

\* the call at the root of the AST is short(len) or shortest(len) on a
\* CommitOrChangeId, and its one argument builds
RootIsIdLengthCall ==
    /\ RootReceiverKind = "CommitOrChangeId"
    /\ RootCall.name \in {"short", "shortest"}
    /\ Len(RootCall.args) = 1
    /\ build_expression(RootCall.args[1], resolver).ok

LengthArgument == build_expression(RootCall.args[1], resolver).val

LengthTypeError ==
    Err([kind |-> [tag |-> "InvalidArgumentType", expected |-> "Integer"],
         span |-> RootCall.args[1].span])

\* C13: the length argument of short(len) and shortest(len) is never
\* coerced: when it builds to a Property of kind Integer the call builds and
\* carries that very property; when it builds to a Property of any other
\* kind (the String literal "1" for one) or to a Renderable, the build fails
\* with InvalidArgumentType("Integer") at the span of the argument.
C13_LengthNotCoerced ==
    RootIsIdLengthCall =>
        IF IsPropertyOfKind(LengthArgument, "Integer")
        THEN /\ built.ok
             /\ LenOption(built.val)
                   = Some(LengthArgument.property_labels.property.property)
        ELSE built = LengthTypeError

\* commit_id.short("1") or commit_id.shortest("1") failed to build
C13_Witness ==
    /\ RootIsIdLengthCall
    /\ RootCall.args[1].kind = "String" /\ RootCall.args[1].text = "1"
    /\ built = LengthTypeError

\* a Renderable length was refused
RenderableLengthRefused ==
    /\ RootIsIdLengthCall /\ LengthArgument.variant = "Template"
    /\ built = LengthTypeError

\* an Integer length was taken
IntegerLengthTaken ==
    /\ RootIsIdLengthCall /\ IsPropertyOfKind(LengthArgument, "Integer")
    /\ built.ok

\* template t is the materialisation of expression e: of a Property, the
\* FromValue wrapper of its value, inside a Label wrapper that carries the
\* label sequence exactly when that sequence is not empty; of a Renderable,
\* the Renderable itself
Materialises(e, t) ==
    IF e.variant = "Property"
    THEN LET value == e.property_labels.property.property
             labels == e.property_labels.labels
             wrapped == IF labels = <<>> THEN t ELSE t.content
         IN  /\ (t.type = "LabelTemplate") <=> (labels # <<>>)
             /\ t.type = "LabelTemplate" =>
                   /\ t.labels.type = "Literal"
                   /\ extract(t.labels) = labels
             /\ wrapped.type = "FormattablePropertyTemplate"
             /\ wrapped.property = value
    ELSE t = e.template

\* C14: materialising a Property as a Renderable wraps its value in
\* FromValue (FormattablePropertyTemplate) and puts a Label wrapper around
\* that if and only if the label sequence of the Property is not empty, the
\* Label carrying exactly that sequence; a Renderable is returned unchanged.
\* This holds for the result of parse_commit_template and for every element
\* of a List.
C14_Materialisation ==
    /\ output # NotYet => Materialises(built.val, output.val)
    /\ (BuildReturned /\ built.ok /\ ast.val.kind = "List") =>
          /\ Len(built.val.template.templates) = Len(ast.val.nodes)
          /\ \A i \in 1..Len(ast.val.nodes) :
                Materialises(build_expression(ast.val.nodes[i], resolver).val,
                             built.val.template.templates[i])

\* a Property with two labels was materialised with a Label wrapper
C14_Witness ==
    /\ output # NotYet /\ built.val.variant = "Property"
    /\ Len(built.val.property_labels.labels) = 2
    /\ output.val.type = "LabelTemplate"

\* a Property without labels was materialised without a Label wrapper
UnlabelledMaterialised ==
    /\ output # NotYet /\ built.val.variant = "Property"
    /\ built.val.property_labels.labels = <<>>
    /\ output.val.type = "FormattablePropertyTemplate"

\* a Renderable was returned as it is
RenderableMaterialised ==
    /\ output # NotYet /\ built.val.variant = "Template"
    /\ output.val = built.val.template

\* a List with a labelled and an unlabelled element was built
ListElementsMaterialised ==
    /\ BuildReturned /\ built.ok /\ ast.val.kind = "List"
    /\ \E i, j \in 1..Len(ast.val.nodes) :
          /\ built.val.template.templates[i].type = "LabelTemplate"
          /\ built.val.template.templates[j].type
                = "FormattablePropertyTemplate"

\* the name of the call at the root of the AST is one the program knows: a
\* global function, or a method of the kind of the receiver
RootNameKnown ==
    \/ RootIsFunctionCall /\ RootCall.name \in {"label", "if", "separate"}
    \/ /\ RootReceiverKind # NoValue
       /\ MethodTable(RootReceiverKind, RootCall.name) # NoValue

\* the error the specification gives for the number of arguments of the
\* call at the root of the AST, NotYet when the number is right
RootArityError ==
    IF ExactArity >= 0
    THEN IF Len(RootCall.args) # ExactArity
         THEN ExactCountError(ExactArity) ELSE NotYet
    ELSE IF RangeArity # <<>>
    THEN IF Len(RootCall.args) \notin
               RangeArity[1]..(RangeArity[1] + RangeArity[2])
         THEN RangeCountError(RangeArity[1], RangeArity[2]) ELSE NotYet
    ELSE IF RootCall.name = "separate" /\ Len(RootCall.args) = 0
    THEN RangeFromError
    ELSE NotYet

\* an argument of the call at the root of the AST fails to build
SomeArgumentFails ==
    \E i \in 1..Len(RootCall.args) :
        ~build_expression(RootCall.args[i], resolver).ok

UnknownKeywordArgument == One(Plain(identifier_pair("unknown_kw")))

TextFooOfUnknown ==
    Text(One(Plain(function_pair("foo", <<UnknownKeywordArgument>>))))

TextStringFooOfUnknown ==
    Text(One(term_pair(EmptyString,
                       <<function_pair("foo", <<UnknownKeywordArgument>>)>>)))

TextLabelOfUnknown ==
    Text(One(Plain(function_pair("label", <<UnknownKeywordArgument>>))))

\* C15: inside one call the receiver of a method call is built first, and
\* its error is the error of the call whatever the method; then the name of
\* the function or method is checked, before the number of arguments; and
\* the number of arguments is checked before any argument is built.  So
\* foo(unknown_kw) fails with NoSuchFunction, "".foo(unknown_kw) with
\* NoSuchMethod and label(unknown_kw) with InvalidArgumentCountExact(2),
\* none of them with NoSuchKeyword.
C15_ErrorPrecedence ==
    BuildReturned =>
        /\ (RootIsMethodCall /\ ~RootReceiver.ok) => built = RootReceiver
        /\ (RootIsMethodCall /\ RootReceiver.ok /\ ~RootNameKnown) =>
              /\ ~built.ok
              /\ built.err.kind.tag = "NoSuchMethod"
              /\ built.err.kind.name = RootCall.name
              /\ built.err.span = RootCall.name_span
        /\ (RootIsFunctionCall /\ ~RootNameKnown) =>
              /\ ~built.ok
              /\ built.err.kind.tag = "NoSuchFunction"
              /\ built.err.kind.name = RootCall.name
              /\ built.err.span = RootCall.name_span
        /\ (RootNameKnown /\ RootArityError # NotYet) =>
              built = RootArityError
        /\ template_text = TextFooOfUnknown =>
              ~built.ok /\ built.err.kind.tag = "NoSuchFunction"
        /\ template_text = TextStringFooOfUnknown =>
              ~built.ok /\ built.err.kind.tag = "NoSuchMethod"
        /\ template_text = TextLabelOfUnknown =>
              built = ExactCountError(2)

\* label(unknown_kw) failed on the number of its arguments
C15_Witness ==
    /\ BuildReturned /\ template_text = TextLabelOfUnknown
    /\ SomeArgumentFails
    /\ built = ExactCountError(2)

\* a method call whose receiver fails, whose method does not exist and whose
\* argument fails reported the receiver
ReceiverErrorFirst ==
    /\ RootIsMethodCall /\ ~RootReceiver.ok
    /\ RootCall.name = "foo" /\ SomeArgumentFails
    /\ built = RootReceiver

\* a method that does not exist was reported before the failing argument
MethodNameBeforeArguments ==
    /\ RootIsMethodCall /\ RootReceiver.ok /\ ~RootNameKnown
    /\ SomeArgumentFails
    /\ ~built.ok /\ built.err.kind.tag = "NoSuchMethod"

\* a method with too many arguments, one of which fails, reported the number
MethodArityBeforeArguments ==
    /\ RootIsMethodCall /\ RootNameKnown /\ SomeArgumentFails
    /\ RootArityError # NotYet /\ built = RootArityError

\* a check that passed
Passed == Ok(NoValue)

\* the check that node builds: Passed, or the error of the build
BuildCheck(node) ==
    LET b == build_expression(node, resolver) IN IF b.ok THEN Passed ELSE b

\* the check that the condition of if(...) is a Boolean, made once the
\* condition has been built
ConditionCheck ==
    LET c == build_expression(RootArgs[1], resolver)
    IN  IF c.ok /\ Expression_try_into_boolean(c.val) = None
        THEN ConditionTypeError ELSE Passed

\* the checks the specification lists for the node at the root of the AST,
\* in the order it lists them; <<>> for a node it lists no checks for
RootChecks ==
    IF RootIsFunctionCall /\ RootNameKnown /\ RootArityError = NotYet
    THEN IF RootCall.name = "if"
         THEN <<BuildCheck(RootArgs[1]), ConditionCheck>>
                \o [i \in 1..(Len(RootArgs) - 1) |-> BuildCheck(RootArgs[i + 1])]
         ELSE [i \in 1..Len(RootArgs) |-> BuildCheck(RootArgs[i])]
    ELSE IF BuildReturned /\ ast.val.kind = "List"
    THEN [i \in 1..Len(ast.val.nodes) |-> BuildCheck(ast.val.nodes[i])]
    ELSE <<>>

TextIfOneUnknown ==
    Text(One(Plain(function_pair("if",
            <<One(Plain(integer_literal_pair(<<1>>))),
              UnknownKeywordArgument>>))))

\* C16: the arguments of if, label and separate and the elements of a List
\* are checked strictly left to right (for if: build the condition, check
\* that it is a Boolean, build the true branch, build the false branch), and
\* the build returns the error of the first check that fails; it succeeds
\* when none fails.  So if(1, unknown_kw) fails with
\* InvalidArgumentType("Boolean"), not with NoSuchKeyword.
C16_LeftToRight ==
    /\ RootChecks # <<>> =>
          /\ built.ok <=> \A i \in 1..Len(RootChecks) : RootChecks[i].ok
          /\ \A i \in 1..Len(RootChecks) :
                (~RootChecks[i].ok /\ \A j \in 1..(i - 1) : RootChecks[j].ok)
                    => built = RootChecks[i]
    /\ (BuildReturned /\ template_text = TextIfOneUnknown) =>
          built = ConditionTypeError

\* if(1, unknown_kw) failed on the type of its condition
C16_Witness ==
    /\ BuildReturned /\ template_text = TextIfOneUnknown
    /\ ~BuildCheck(RootArgs[2]).ok
    /\ built = ConditionTypeError

\* two checks failed with different errors and the first was returned
FirstOfTwoErrors ==
    /\ RootChecks # <<>>
    /\ \E i, j \in 1..Len(RootChecks) :
          /\ i < j /\ ~RootChecks[i].ok /\ ~RootChecks[j].ok
          /\ RootChecks[i] # RootChecks[j]
          /\ built = RootChecks[i]

\* the same in a List
FirstOfTwoListErrors ==
    /\ FirstOfTwoErrors /\ ast.val.kind = "List"

\* the same in separate(...)
FirstOfTwoSeparateErrors ==
    /\ FirstOfTwoErrors /\ RootIsFunctionCall /\ RootCall.name = "separate"

\* the if(...) call at the root of the AST has 2 or 3 arguments and a
\* condition that builds to a Boolean or to a String
RootIsIfWithBoolean ==
    /\ RootIsIfWithCondition
    /\ Expression_try_into_boolean(RootCondition) # None

\* the condition is a String literal: a constant, whose value is known
\* when the template is compiled
ConditionIsConstant == RootArgs[1].kind = "String"

ConditionValue == extract(Expression_try_into_boolean(RootCondition)[1])

BranchFails(i) ==
    i <= Len(RootArgs) /\ ~build_expression(RootArgs[i], resolver).ok

\* C17: both branches of if(cond, t, f) are built when the template is
\* compiled, whatever the condition: when t or f fails to build, the build
\* fails, also when cond is a constant that never selects that branch (as in
\* if("", unknown_kw, "x") and if("a", "x", unknown_kw)); when the build
\* succeeds, the result holds both branches.
C17_BothBranchesBuilt ==
    RootIsIfWithBoolean =>
        /\ (BranchFails(2) \/ BranchFails(3)) => ~built.ok
        /\ BranchFails(2) => built = build_expression(RootArgs[2], resolver)
        /\ (~BranchFails(2) /\ BranchFails(3)) =>
              built = build_expression(RootArgs[3], resolver)
        /\ (~BranchFails(2) /\ ~BranchFails(3)) =>
              /\ built.ok
              /\ built.val.template.type = "ConditionalTemplate"
              /\ built.val.template.true_template = ArgTemplate(RootArgs[2])
              /\ built.val.template.false_template
                    = IF Len(RootArgs) = 3
                      THEN Some(ArgTemplate(RootArgs[3])) ELSE None
        /\ (ConditionIsConstant /\ ~ConditionValue /\ BranchFails(2)) =>
              ~built.ok
        /\ (ConditionIsConstant /\ ConditionValue /\ BranchFails(3)) =>
              ~built.ok

\* if("", unknown_kw, ...) failed although "" never selects the true branch
C17_Witness ==
    /\ RootIsIfWithBoolean /\ ConditionIsConstant /\ ~ConditionValue
    /\ Len(RootArgs) = 3 /\ BranchFails(2) /\ ~BranchFails(3)
    /\ ~built.ok /\ built.err.kind.tag = "NoSuchKeyword"

\* if("a", ..., unknown_kw) failed although "a" never selects the false
\* branch
DeadFalseBranchFails ==
    /\ RootIsIfWithBoolean /\ ConditionIsConstant /\ ConditionValue
    /\ ~BranchFails(2) /\ BranchFails(3)
    /\ ~built.ok /\ built.err.kind.tag = "NoSuchKeyword"

\* the closure has returned
ClosureReturned == closure_output # NotYet

\* the length the closure uses when the argument is absent
DefaultLength ==
    CASE closure_input.function = "short" -> <<1, 2>>
      [] closure_input.function = "shortest" -> <<0>>

\* C18: a length of short(len) or shortest(len) that does not convert to an
\* unsigned size, that is every negative length, is no error when the
\* template is rendered: the call uses the default it uses when the
\* argument is absent, 12 for short and 0 for shortest; every length that
\* is not negative is passed through unchanged.
C18_NegativeLength ==
    ClosureReturned =>
        LET len == closure_input.len
        IN  /\ closure_output.id = closure_input.id
            /\ closure_output.method = closure_input.function
            /\ len = None => closure_output.total_len = DefaultLength
            /\ (len # None /\ IsNegative(len[1])) =>
                  closure_output.total_len = DefaultLength
            /\ (len # None /\ ~IsNegative(len[1])) =>
                  closure_output.total_len = len[1]
            /\ closure_input.function = "short" /\ len = None =>
                  closure_output.total_len = <<1, 2>>
            /\ closure_input.function = "shortest" /\ len = None =>
                  closure_output.total_len = <<0>>

\* short was called with the length -1 and used 12
C18_Witness ==
    /\ ClosureReturned /\ closure_input.function = "short"
    /\ closure_input.len = Some(Negative(<<1>>))
    /\ closure_output.total_len = <<1, 2>>

\* shortest was called with i64::MAX and used it
LargeLengthPassedThrough ==
    /\ ClosureReturned /\ closure_input.function = "shortest"
    /\ closure_input.len = Some(I64MaxDigits)
    /\ closure_output.total_len = I64MaxDigits

\* the call of method m, without arguments, on the node object
MethodCallOn(object, m) ==
    MethodCallExpr(object, FunctionCallNode(m, <<1, 2>>, <<>>, <<3, 3>>),
                   <<1, 4>>)

\* C19: the empty text is a valid template: its first pair is EOI,
\* parse_template returns a List node without children, and build_expression
\* turns that into a Renderable, the concatenation of no templates, never
\* into a Property; a method call on that node is therefore refused with
\* NoSuchMethod of type "Template", whatever the method.
C19_EmptyInput ==
    (ParseReturned /\ template_text = EmptyText) =>
        /\ source.ok /\ Head(source.val).rule = "EOI"
        /\ ast.ok
        /\ ast.val.kind = "List" /\ ast.val.nodes = <<>>
        /\ BuildReturned =>
              /\ built.ok
              /\ built.val.variant = "Template"
              /\ built.val.template.type = "ListTemplate"
              /\ built.val.template.templates = <<>>
              /\ \A m \in MethodNames :
                    LET call == build_expression(MethodCallOn(ast.val, m),
                                                 resolver)
                    IN  /\ ~call.ok
                        /\ call.err.kind.tag = "NoSuchMethod"
                        /\ call.err.kind.type_name = "Template"
                        /\ call.err.kind.name = m
        /\ output # NotYet =>
              output.val.type = "ListTemplate" /\ output.val.templates = <<>>

\* the empty text was built to the concatenation of no templates
C19_Witness ==
    /\ template_text = EmptyText /\ BuildReturned
    /\ built.ok /\ built.val.variant = "Template"
    /\ built.val.template.templates = <<>>

=============================================================================
